---- MODULE Spec2Model ----
(***************************************************************************)
(* A model of src/Card.py: class Card, a lookup object that fetches one    *)
(* JSON document from the Scryfall API when it is constructed and projects *)
(* fields of that document.                                                *)
(*                                                                         *)
(* Python objects are modelled as tagged records so that values of         *)
(* different Python types can be compared: None, str, int and dict.        *)
(* fetch_json, the collaborator called at line 67, is the environment: a   *)
(* call to it either returns a document or raises.                         *)
(***************************************************************************)
EXTENDS Integers, Sequences, FiniteSets, TLC

VARIABLES pc, name, scryfall_response, request, fetches, ctor_signal, stdout,
          last

vars ==
    <<pc, name, scryfall_response, request, fetches, ctor_signal, stdout, last>>

(***************************************************************************)
(* Bounds of the model.                                                    *)
(***************************************************************************)
\* the total number of calls of fetch_json in one behaviour
MaxFetches == 3

\* the Card objects of one behaviour
Instances == {"card1", "card2"}

\* the names a Card is constructed with
Names == {"Black Lotus", "Opt"}

(***************************************************************************)
(* Python values.                                                          *)
(***************************************************************************)
None == [t |-> "None", s |-> "", n |-> 0, m |-> <<>>]

Str(x) == [t |-> "str", s |-> x, n |-> 0, m |-> <<>>]

Num(x) == [t |-> "int", s |-> "", n |-> x, m |-> <<>>]

Dict(f) == [t |-> "dict", s |-> "", n |-> 0, m |-> f]

EmptyDict == Dict(<<>>)

\* bool(v): None, "", 0 and {} are false, every other value is true
Truthy(v) ==
    CASE v.t = "None" -> FALSE
      [] v.t = "str"  -> v.s # ""
      [] v.t = "int"  -> v.n # 0
      [] v.t = "dict" -> DOMAIN v.m # {}

\* d.get(k) of a dict d
dict_get(d, k) == IF k \in DOMAIN d.m THEN d.m[k] ELSE None

\* only a dict has an attribute get; v.get on a str or an int raises
HasGet(v) == v.t = "dict"

(***************************************************************************)
(* The documents fetch_json may return: the documents of the spec's        *)
(* scenarios and the shapes a JSON value under "prices" can take.          *)
(***************************************************************************)
Prices123 == Dict([k \in {"usd"} |-> Str("1.23")])

PricesLotus ==
    Dict([k \in {"usd", "eur", "tix"} |->
            IF k = "usd" THEN Str("50000.00") ELSE None])

PricesBlankKey ==
    Dict([k \in {"", "usd"} |-> IF k = "" THEN Str("0.10") ELSE Str("1.23")])

Doc123 == Dict([k \in {"prices"} |-> Prices123])

DocLotus == Dict([k \in {"prices"} |-> PricesLotus])

DocNoPrices == Dict([k \in {"name"} |-> Str("Opt")])

DocNullPrices == Dict([k \in {"prices"} |-> None])

DocEmptyPrices == Dict([k \in {"prices"} |-> EmptyDict])

DocStrPrices == Dict([k \in {"prices"} |-> Str("n/a")])

DocBlankKey == Dict([k \in {"prices"} |-> PricesBlankKey])

DocZeroPrices == Dict([k \in {"prices"} |-> Num(0)])

Docs ==
    {EmptyDict, Doc123, DocLotus, DocNoPrices, DocNullPrices, DocEmptyPrices,
     DocStrPrices, DocBlankKey, DocZeroPrices}

\* the arguments get_value_from_base_scryfall_response is called with
Keys == {"prices", "nonexistent_key"}

SubKeys == {None, Str("usd"), Str("eur"), Str("")}

(***************************************************************************)
(* What a call of fetch_json can raise.  The first two are subclasses of   *)
(* Exception: the network is unreachable, and the card does not exist (a   *)
(* non-2xx status).  KeyboardInterrupt derives from BaseException only: it *)
(* is an interruption delivered during the call, not a failure of the      *)
(* fetch.                                                                  *)
(***************************************************************************)
FetchErrors == {"ConnectionError", "HTTPError"}

Interrupts == {"KeyboardInterrupt"}

Raisable == FetchErrors \cup Interrupts

(***************************************************************************)
(* Card.get_base_scryfall_url, line 59                                     *)
(***************************************************************************)
\* a variant that percent-encodes the space of the name
get_base_scryfall_url_quoted(n) ==
    "https://api.scryfall.com/cards/named?exact="
        \o (IF n = "Black Lotus" THEN "Black%20Lotus" ELSE n)

get_base_scryfall_url(n) == "https://api.scryfall.com/cards/named?exact=" \o n

(***************************************************************************)
(* Card.get_value_from_base_scryfall_response, lines 82-88.  The result is *)
(* the value returned, or the exception raised by data.get when data is    *)
(* not a dict.                                                             *)
(***************************************************************************)
Return(v) == [raised |-> FALSE, error |-> "", val |-> v]

Raise(e) == [raised |-> TRUE, error |-> e, val |-> None]

\* a variant without the test of line 82: None has no attribute get
get_value_unguarded(response, key, sub_key) ==
    IF HasGet(response)
    THEN LET data == dict_get(response, key)
         IN  IF Truthy(sub_key) /\ Truthy(data)
             THEN IF HasGet(data)
                  THEN Return(dict_get(data, sub_key.s))
                  ELSE Raise("AttributeError")
             ELSE Return(data)
    ELSE Raise("AttributeError")

get_value_from_base_scryfall_response(response, key, sub_key) ==
    IF Truthy(response)
    THEN LET data == dict_get(response, key)
         IN  IF Truthy(sub_key) /\ Truthy(data)
             THEN IF HasGet(data)
                  THEN Return(dict_get(data, sub_key.s))
                  ELSE Raise("AttributeError")
             ELSE Return(data)
    ELSE Return(None)

\* lines 98, 108 and 118: the three price properties
dollar_min_price_of(response) ==
    get_value_from_base_scryfall_response(response, "prices", Str("usd"))

\* a variant that reads the price in USD
euro_min_price_of_usd(response) ==
    get_value_from_base_scryfall_response(response, "prices", Str("usd"))

euro_min_price_of(response) ==
    get_value_from_base_scryfall_response(response, "prices", Str("eur"))

online_min_price_of(response) ==
    get_value_from_base_scryfall_response(response, "prices", Str("tix"))

\* Card.__repr__, line 46
repr_of(n) == Str("Card(name=" \o n \o ")")

(***************************************************************************)
(* Card.set_base_scryfall_response, lines 65-69, in its parts.             *)
(***************************************************************************)
\* line 68: except Exception catches the subclasses of Exception
\* a variant that catches one class of failure only
CatchesConnectionErrorOnly(e) == e = "ConnectionError"

Catches(e) == e \in FetchErrors

\* line 69: the message printed for the exception e
LogMessage(e) == "An error occurred while fetching Scryfall response: " \o e

\* line 67: self.scryfall_response = <the document returned>
\* a variant that updates the document held with the keys of the new one
StoreResponseMerged(responses, i, d) ==
    [responses EXCEPT ![i] = IF @ = None THEN d ELSE Dict(d.m @@ @.m)]

\* a variant that keeps the document in an attribute of the class
StoreResponseShared(responses, i, d) == [j \in DOMAIN responses |-> d]

StoreResponse(responses, i, d) == [responses EXCEPT ![i] = d]

(***************************************************************************)
(* The last call that has returned to its caller, with what the caller and *)
(* the collaborator saw of it: the receiver, the method, its arguments,    *)
(* what fetch_json returned or raised in it, and its result.               *)
(***************************************************************************)
NoCall ==
    [inst |-> "", op |-> "", key |-> "", sub_key |-> None, fetched |-> None,
     signalled |-> "", raised |-> FALSE, error |-> "", val |-> None]

AccessorCall(i, op, key, sub_key, result) ==
    [inst |-> i, op |-> op, key |-> key, sub_key |-> sub_key, fetched |-> None,
     signalled |-> "", raised |-> result.raised, error |-> result.error,
     val |-> result.val]

FetchCall(i, op, d, e, result) ==
    [inst |-> i, op |-> op, key |-> "", sub_key |-> None, fetched |-> d,
     signalled |-> e, raised |-> result.raised, error |-> result.error,
     val |-> result.val]

RECURSIVE SumOver(_, _)
SumOver(f, S) ==
    IF S = {} THEN 0
    ELSE LET x == CHOOSE y \in S : TRUE IN f[x] + SumOver(f, S \ {x})

\* the number of calls of fetch_json made so far
TotalFetches == SumOver(fetches, Instances)

\* the method whose call of fetch_json is in flight
MethodInFlight(i) ==
    IF pc[i] = "fetching" THEN "__init__" ELSE "set_base_scryfall_response"

\* what fetch_json signalled to the constructor of each Card: "" while it
\* has not, "ok" for a document, or the name of the exception raised
SignalSeen(i, signal) ==
    IF pc[i] = "fetching"
    THEN [ctor_signal EXCEPT ![i] = signal]
    ELSE ctor_signal

(***************************************************************************)
(* The state before any Card is constructed.                               *)
(***************************************************************************)
Init ==
    /\ pc = [i \in Instances |-> "new"]
    /\ name = [i \in Instances |-> ""]
    /\ scryfall_response = [i \in Instances |-> None]
    /\ request = [i \in Instances |-> ""]
    /\ fetches = [i \in Instances |-> 0]
    /\ ctor_signal = [i \in Instances |-> ""]
    /\ stdout = <<>>
    /\ last = NoCall

\* lines 65-67: the URL is built from the name and fetch_json is called
CallFetch(i, n) ==
    /\ request' = [request EXCEPT ![i] = get_base_scryfall_url(n)]
    /\ fetches' = [fetches EXCEPT ![i] = @ + 1]

\* Card.__init__, lines 35-37, up to the call of fetch_json at line 67
Construct(i, n) ==
    /\ pc[i] = "new"
    /\ TotalFetches < MaxFetches
    /\ name' = [name EXCEPT ![i] = n]
    /\ scryfall_response' = [scryfall_response EXCEPT ![i] = None]
    /\ CallFetch(i, n)
    /\ pc' = [pc EXCEPT ![i] = "fetching"]
    /\ UNCHANGED <<ctor_signal, stdout, last>>

\* a caller invokes set_base_scryfall_response on a constructed Card
set_base_scryfall_response(i) ==
    /\ pc[i] = "ready"
    /\ TotalFetches < MaxFetches
    /\ CallFetch(i, name[i])
    /\ pc' = [pc EXCEPT ![i] = "refetching"]
    /\ UNCHANGED <<name, scryfall_response, ctor_signal, stdout, last>>

\* line 67: fetch_json returns the document d, which is stored
FetchReturns(i, d) ==
    /\ pc[i] \in {"fetching", "refetching"}
    /\ scryfall_response' = StoreResponse(scryfall_response, i, d)
    /\ pc' = [pc EXCEPT ![i] = "ready"]
    /\ last' = FetchCall(i, MethodInFlight(i), d, "", Return(None))
    /\ ctor_signal' = SignalSeen(i, "ok")
    /\ UNCHANGED <<name, request, fetches, stdout>>

\* a variant whose handler clears the document
FetchRaisesClearing(i, e) ==
    /\ pc[i] \in {"fetching", "refetching"}
    /\ IF Catches(e)
       THEN /\ stdout' = Append(stdout, LogMessage(e))
            /\ pc' = [pc EXCEPT ![i] = "ready"]
            /\ last' = FetchCall(i, MethodInFlight(i), None, e, Return(None))
       ELSE /\ stdout' = stdout
            /\ pc' = [pc EXCEPT ![i] =
                        IF pc[i] = "fetching" THEN "raised" ELSE "ready"]
            /\ last' = FetchCall(i, MethodInFlight(i), None, e, Raise(e))
    /\ ctor_signal' = SignalSeen(i, e)
    /\ scryfall_response' = [scryfall_response EXCEPT ![i] = None]
    /\ UNCHANGED <<name, request, fetches>>

\* lines 67-69: fetch_json raises e; an Exception is printed and swallowed,
\* anything else propagates to the caller (out of __init__: no object)
FetchRaises(i, e) ==
    /\ pc[i] \in {"fetching", "refetching"}
    /\ IF Catches(e)
       THEN /\ stdout' = Append(stdout, LogMessage(e))
            /\ pc' = [pc EXCEPT ![i] = "ready"]
            /\ last' = FetchCall(i, MethodInFlight(i), None, e, Return(None))
       ELSE /\ stdout' = stdout
            /\ pc' = [pc EXCEPT ![i] =
                        IF pc[i] = "fetching" THEN "raised" ELSE "ready"]
            /\ last' = FetchCall(i, MethodInFlight(i), None, e, Raise(e))
    /\ ctor_signal' = SignalSeen(i, e)
    /\ UNCHANGED <<name, scryfall_response, request, fetches>>

\* a caller invokes get_value_from_base_scryfall_response(key, sub_key)
GetValue(i, key, sub_key) ==
    /\ pc[i] = "ready"
    /\ last' = AccessorCall(i, "get_value_from_base_scryfall_response", key,
                   sub_key,
                   get_value_from_base_scryfall_response(
                       scryfall_response[i], key, sub_key))
    /\ UNCHANGED <<pc, name, scryfall_response, request, fetches, ctor_signal,
                   stdout>>

\* a variant that takes the prices out of the document it reads
dollar_min_price_popping(i) ==
    /\ pc[i] = "ready"
    /\ last' = AccessorCall(i, "dollar_min_price", "", None,
                   dollar_min_price_of(scryfall_response[i]))
    /\ scryfall_response' =
           [scryfall_response EXCEPT ![i] =
               IF @.t = "dict"
               THEN Dict([k \in DOMAIN @.m \ {"prices"} |-> @.m[k]])
               ELSE @]
    /\ UNCHANGED <<pc, name, request, fetches, ctor_signal, stdout>>

\* lines 90-98
dollar_min_price(i) ==
    /\ pc[i] = "ready"
    /\ last' = AccessorCall(i, "dollar_min_price", "", None,
                   dollar_min_price_of(scryfall_response[i]))
    /\ UNCHANGED <<pc, name, scryfall_response, request, fetches, ctor_signal,
                   stdout>>

\* lines 100-108
euro_min_price(i) ==
    /\ pc[i] = "ready"
    /\ last' = AccessorCall(i, "euro_min_price", "", None,
                   euro_min_price_of(scryfall_response[i]))
    /\ UNCHANGED <<pc, name, scryfall_response, request, fetches, ctor_signal,
                   stdout>>

\* lines 110-118
online_min_price(i) ==
    /\ pc[i] = "ready"
    /\ last' = AccessorCall(i, "online_min_price", "", None,
                   online_min_price_of(scryfall_response[i]))
    /\ UNCHANGED <<pc, name, scryfall_response, request, fetches, ctor_signal,
                   stdout>>

\* lines 39-46
Repr(i) ==
    /\ pc[i] = "ready"
    /\ last' = AccessorCall(i, "__repr__", "", None, Return(repr_of(name[i])))
    /\ UNCHANGED <<pc, name, scryfall_response, request, fetches, ctor_signal,
                   stdout>>

Next ==
    \E i \in Instances :
        \/ \E n \in Names : Construct(i, n)
        \/ set_base_scryfall_response(i)
        \/ \E d \in Docs : FetchReturns(i, d)
        \/ \E e \in Raisable : FetchRaises(i, e)
        \/ \E key \in Keys, sub_key \in SubKeys : GetValue(i, key, sub_key)
        \/ dollar_min_price(i)
        \/ euro_min_price(i)
        \/ online_min_price(i)
        \/ Repr(i)

Spec == Init /\ [][Next]_vars

(***************************************************************************)
(* Properties.                                                             *)
(***************************************************************************)
FetchMethods == {"__init__", "set_base_scryfall_response"}

ValueAccessors ==
    {"get_value_from_base_scryfall_response", "dollar_min_price",
     "euro_min_price", "online_min_price"}

Accessors == ValueAccessors \cup {"__repr__"}

\* this step is the return of a call of one of the accessors
AccessorStep == last' # last /\ last'.op \in Accessors

\* C1: whatever failure (an Exception) fetch_json signals to the constructor,
\* for any name, the constructor returns normally, the document is left
\* None, and exactly one message is printed, which contains the error.
C1_ConstructorSwallowsFetchFailure ==
    [][\A i \in Instances, e \in FetchErrors :
          (pc[i] = "fetching" /\ pc'[i] # "fetching" /\ last'.signalled = e)
          => /\ pc'[i] = "ready"
             /\ last'.inst = i /\ last'.op = "__init__" /\ ~last'.raised
             /\ scryfall_response'[i] = None
             /\ Len(stdout') = Len(stdout) + 1
             /\ SubSeq(stdout', 1, Len(stdout)) = stdout
             /\ stdout'[Len(stdout')] =
                   "An error occurred while fetching Scryfall response: " \o e
      ]_vars

\* a constructor whose fetch failed for a missing card has returned
C1_Witness ==
    /\ last.op = "__init__"
    /\ last.signalled = "HTTPError"
    /\ ~last.raised
    /\ pc[last.inst] = "ready"
    /\ scryfall_response[last.inst] = None
    /\ stdout =
          <<"An error occurred while fetching Scryfall response: HTTPError">>

\* C2: constructing a Card with the name n calls fetch_json exactly once,
\* with the URL https://api.scryfall.com/cards/named?exact=<n>; when the
\* constructor has returned or raised, on success and on failure, that one
\* call is the only one made.
C2_OneFetchPerConstruction ==
    \A i \in Instances :
        /\ pc[i] = "new" => fetches[i] = 0
        /\ pc[i] = "fetching"
           => /\ fetches[i] = 1
              /\ request[i] =
                    "https://api.scryfall.com/cards/named?exact=" \o name[i]
        /\ (pc[i] \in {"ready", "raised"} /\ last.inst = i
                /\ last.op = "__init__")
           => /\ fetches[i] = 1
              /\ request[i] =
                    "https://api.scryfall.com/cards/named?exact=" \o name[i]

\* the constructor of a Card named Black Lotus has returned after a failure
C2_Witness ==
    /\ last.op = "__init__"
    /\ last.signalled = "ConnectionError"
    /\ pc[last.inst] = "ready"
    /\ name[last.inst] = "Black Lotus"
    /\ fetches[last.inst] = 1
    /\ request[last.inst] =
          "https://api.scryfall.com/cards/named?exact=Black Lotus"

\* C3, as stated: once a Card is constructed its document is never
\* refetched or changed by any of its public operations.
C3_NeverRefetched ==
    [][\A i \in Instances :
          pc[i] \in {"ready", "refetching"}
          => scryfall_response'[i] = scryfall_response[i]]_vars

\* C3, amended: the document is None or exactly a document fetch_json
\* returned; it changes only when a call of fetch_json made for this Card,
\* by the constructor or by a later call of set_base_scryfall_response,
\* returns, and then it becomes exactly the document returned.
C3_DocumentIsOneFetchedResponse ==
    /\ [](\A i \in Instances : scryfall_response[i] \in Docs \cup {None})
    /\ [][\A i \in Instances :
             scryfall_response'[i] # scryfall_response[i]
             => /\ pc[i] \in {"fetching", "refetching"}
                /\ last'.inst = i
                /\ last'.op \in FetchMethods
                /\ last'.fetched \in Docs
                /\ scryfall_response'[i] = last'.fetched
         ]_vars

\* a later call of set_base_scryfall_response has replaced the document
C3_Witness ==
    /\ last.op = "set_base_scryfall_response"
    /\ last.fetched = DocLotus
    /\ ctor_signal[last.inst] = "ok"
    /\ fetches[last.inst] = 2
    /\ scryfall_response[last.inst] = DocLotus

\* the last call returned is get_value_from_base_scryfall_response
GetValueReturned == last.op = "get_value_from_base_scryfall_response"

\* the document of the receiver of the last call, which no step has changed
\* since that call returned
LastDocument == scryfall_response[last.inst]

\* the document d is present and holds the key k
HoldsKey(d, k) == d.t = "dict" /\ k \in DOMAIN d.m

\* C4: get_value_from_base_scryfall_response(key, sub_key) returns
\* document[key] when the document holds key and no sub_key is given,
\* document[key][sub_key] when a sub_key is given, the empty string
\* included, and document[key] is a mapping that holds it, and None when
\* the document is None, lacks key, or a sub_key is given and document[key]
\* is None.
C4_GetFieldContract ==
    GetValueReturned
    => LET d == LastDocument
           k == last.key
           sk == last.sub_key
       IN  /\ (HoldsKey(d, k) /\ sk = None)
              => (~last.raised /\ last.val = d.m[k])
           /\ (HoldsKey(d, k) /\ sk # None /\ HoldsKey(d.m[k], sk.s))
              => (~last.raised /\ last.val = d.m[k].m[sk.s])
           /\ (d = None \/ ~HoldsKey(d, k)
                 \/ (sk # None /\ d.m[k] = None))
              => (~last.raised /\ last.val = None)

\* the field that the last call of a value accessor asked for
AskedKey == IF GetValueReturned THEN last.key ELSE "prices"

AskedSubKey ==
    CASE GetValueReturned -> last.sub_key
      [] last.op = "dollar_min_price" -> Str("usd")
      [] last.op = "euro_min_price" -> Str("eur")
      [] last.op = "online_min_price" -> Str("tix")

\* the field asked for is in the document
Found(d, k, sk) ==
    /\ HoldsKey(d, k)
    /\ sk # None => HoldsKey(d.m[k], sk.s)

\* C5: get_value_from_base_scryfall_response and the three price
\* properties never raise, for any document, key and sub_key, and return
\* None whenever the field asked for is not in the document.
C5_MissingFieldIsNeverAnError ==
    last.op \in ValueAccessors
    => /\ ~last.raised
       /\ ~Found(LastDocument, AskedKey, AskedSubKey) => last.val = None

C7_FailedConstructionProjectsNone ==
    \A i \in Instances :
        (ctor_signal[i] \in FetchErrors /\ fetches[i] = 1)
        => /\ pc[i] = "ready"
           /\ scryfall_response[i] = None
           /\ (last.inst = i /\ last.op \in ValueAccessors)
              => (~last.raised /\ last.val = None)

\* a price was read from a Card whose constructor could not reach the network
C7_Witness ==
    /\ last.op = "dollar_min_price"
    /\ ctor_signal[last.inst] = "ConnectionError"
    /\ fetches[last.inst] = 1
    /\ last.val = None

\* the fields of the Card i and the state of its calls
Fields(i) ==
    <<pc[i], name[i], scryfall_response[i], request[i], fetches[i],
      ctor_signal[i]>>

\* C8: Cards share no state and nothing is cached: a step of the
\* construction or of a fetch of one Card leaves every other Card as it
\* was, in any interleaving; the document fetch_json returns to a Card
\* becomes the document of that Card, whatever another Card of the same
\* name holds; and every constructed Card has made a fetch of its own.
C8_InstancesAreIndependent ==
    /\ [](\A i \in Instances : pc[i] = "ready" => fetches[i] >= 1)
    /\ [][\A i \in Instances :
             /\ pc'[i] # pc[i]
                => \A j \in Instances \ {i} : Fields(j)' = Fields(j)
             /\ (pc[i] \in {"fetching", "refetching"} /\ pc'[i] # pc[i]
                   /\ last'.signalled = "")
                => /\ last'.inst = i
                   /\ last'.fetched \in Docs
                   /\ scryfall_response'[i] = last'.fetched
         ]_vars

\* two Cards of one name hold the different documents of their own fetches
C8_Witness ==
    /\ pc = [i \in Instances |-> "ready"]
    /\ name["card1"] = name["card2"]
    /\ scryfall_response["card1"] = Doc123
    /\ scryfall_response["card2"] = DocLotus
    /\ fetches = [i \in Instances |-> 1]

\* C9: a call of get_value_from_base_scryfall_response, of a price property
\* or of __repr__ changes no field of any Card, calls fetch_json for none,
\* and prints nothing; the same call made again at once returns the same
\* result; __repr__ shows the name.
C9_AccessorsAreReadOnly ==
    [][AccessorStep
       => /\ UNCHANGED <<pc, name, scryfall_response, request, fetches,
                         ctor_signal, stdout>>
          /\ (last.inst = last'.inst /\ last.op = last'.op
                /\ last.key = last'.key /\ last.sub_key = last'.sub_key)
             => last' = last
          /\ last'.op = "__repr__"
             => last'.val = Str("Card(name=" \o name[last'.inst] \o ")")
      ]_vars

\* a price was read after another accessor, with one fetch made in all
C9_Witness ==
    /\ last.op = "dollar_min_price"
    /\ last.val = Str("50000.00")
    /\ LastDocument = DocLotus
    /\ fetches[last.inst] = 1

\* C10: when set_base_scryfall_response is called on a constructed Card and
\* fetch_json raises, the document is left as it was; when fetch_json
\* returns, the document becomes exactly the document returned; the name
\* is unchanged in both cases.
C10_RefetchChangesDocumentOnlyOnSuccess ==
    [][\A i \in Instances :
          (pc[i] = "refetching" /\ pc'[i] # "refetching")
          => /\ last'.inst = i
             /\ last'.op = "set_base_scryfall_response"
             /\ name'[i] = name[i]
             /\ last'.signalled # ""
                => scryfall_response'[i] = scryfall_response[i]
             /\ last'.signalled = ""
                => /\ last'.fetched \in Docs
                   /\ scryfall_response'[i] = last'.fetched
      ]_vars

\* a later fetch failed on a Card that holds a document, which it keeps
C10_Witness ==
    /\ last.op = "set_base_scryfall_response"
    /\ last.signalled = "HTTPError"
    /\ ctor_signal[last.inst] = "ok"
    /\ fetches[last.inst] = 2
    /\ LastDocument = Doc123

====
